---- MODULE Spec2Model ----
(***************************************************************************)
(* Replay buffer and samplers of rl/dataset.py.                            *)
(*                                                                         *)
(* Python lists are sequences; Python indices (idx, episode_idx, t,        *)
(* future_t) are kept 0-based as in the source and converted on access by  *)
(* At.  The defaultdict held in self._buffer is a function whose domain is *)
(* the set of keys present; dict objects live in heap and are referred to  *)
(* by reference, because state_dict() hands out self._buffer itself.       *)
(* An exception is fatal (spec section 7): once err is set no further      *)
(* operation runs on the buffer; the writes made before the raise stay.    *)
(***************************************************************************)
EXTENDS Integers, Sequences, FiniteSets, TLC

\* ------------------------------------------------------------- bounds
buffer_size == 2
MaxT == 2
MaxCalls == 3
MaxBatch == 2

\* The most entries a demonstration folder holds.
MaxFiles == 3

\* The largest num_demos handed to load_demonstrations.
MaxDemos == 2

\* ------------------------------------------------------------- values
\* The keys of a goal-conditioned buffer, the one the samplers draw from.
HerKeys == {"ob", "ac", "rew", "done", "ag", "g"}

\* The keys load_demonstrations fills (lines 86-89).
DemoKeys == {"ob", "ac", "rew", "done"}

\* The keys LearnedRewardReplayBuffer.load_demonstrations fills (lines 151-154).
LearnedKeys == {"ob", "ac", "env_rew", "done"}

\* A per-step value that is not a mapping (isinstance(v, dict) is False).
Scalar(x) == [isdict |-> FALSE, val |-> x]

\* A per-step value that is a mapping of named components.
Dict(items) == [isdict |-> TRUE, val |-> items]

\* seq[i] with a Python (0-based) index.
At(seq, i) == seq[i + 1]

\* Python's seq[-1].
Last(seq) == seq[Len(seq)]

\* d[k] on a defaultdict(list): a missing key reads as the empty list.
Get(d, k) == IF k \in DOMAIN d THEN d[k] ELSE <<>>

\* The defaultdict after d[k] has been read: a missing key is inserted.
Touch(d, k) == [x \in DOMAIN d \cup {k} |-> Get(d, x)]

EmptyDict == [k \in {} |-> <<>>]

\* The achieved goal along a rollout: 0 until step `change`, 1 from it on.
AgAt(change, i) == IF i < change THEN 0 ELSE 1

\* The rollout handed to store_episode by the collaborator: its s-th one,
\* with T actions.  dev names the one key whose length departs from the
\* ingestion contract ("none": ob has T + 1 entries, ag has T + 1 entries,
\* every other key has T).
Rollout(s, T, dev, dn, change, g0) ==
    [ob   |-> [i \in 1..(IF dev = "ob_short" THEN T ELSE T + 1) |->
                   Dict([object_ob |-> <<"ob", s, i - 1>>])],
     ac   |-> [i \in 1..T |-> Dict([default |-> <<"ac", s, i - 1>>])],
     rew  |-> [i \in 1..(IF dev = "rew_long" THEN T + 1 ELSE T) |->
                   Scalar(<<"rew", s, i - 1>>)],
     done |-> [i \in 1..T |-> Scalar(dn /\ i = T)],
     ag   |-> [i \in 1..(IF dev = "ag_short" THEN T ELSE T + 1) |->
                   Scalar(AgAt(change, i - 1))],
     g    |-> [i \in 1..T |-> Scalar(g0)]]

\* ------------------------------------------------------------- state
VARIABLES
    idx,              \* self._idx
    current_size,     \* self._current_size
    new_episode,      \* self._new_episode
    heap,             \* the dict objects, by reference
    bufref,           \* self._buffer: a reference into heap
    held,             \* the reference state_dict() gave the caller, 0: none
    err,              \* "none", or the exception the last call raised
    op,               \* the last operation called
    rollout,          \* the argument of the last store_episode call
    ncalls,           \* store_episode calls made so far
    only_complete,    \* every one of them closed an episode, none was cleared
    replay_strategy,  \* HERSampler.replay_strategy
    replace_future,   \* the replace_future argument of HERSampler
    future_p,         \* HERSampler.future_p
    batch_size,       \* the batch_size argument of the last sample call
    episode_idxs,     \* the episode indices the last sample call drew
    t_samples,        \* the timesteps the last sample call drew
    replace_goal,     \* per sample: whether the relabel draw fired
    future_ts,        \* per sample: the future_t drawn, -1 when none was
    result,           \* the mapping the last sample call returned
    keys,             \* self._keys
    cls,              \* the buffer's class
    rew_fn,           \* LearnedRewardReplayBuffer._rew, by name
    folder,           \* the entries of demo_folder, in os.scandir order
    num_demos         \* the num_demos argument of load_demonstrations

bufVars == <<idx, current_size, new_episode, heap, bufref, held>>

samplerVars == <<replay_strategy, replace_future, future_p>>

drawVars == <<batch_size, episode_idxs, t_samples, replace_goal, future_ts,
              result>>

cfgVars == <<keys, cls, rew_fn>>

demoVars == <<folder, num_demos>>

vars == <<bufVars, err, op, rollout, ncalls, only_complete, samplerVars,
          drawVars, cfgVars, demoVars>>

\* self._keys
Keys == keys

Refs == {1, 2}

\* self._buffer
buffer == heap[bufref]

NoRollout == [k \in Keys |-> <<>>]

\* The buffer's own fields, as the record store_episode works on.
Self == [idx |-> idx, current_size |-> current_size,
         new_episode |-> new_episode, buffer |-> buffer, err |-> "none"]

\* ------------------------------------------------------------- ReplayBuffer
\* Lines 25-29, on a fresh dict.
Cleared ==
    [idx |-> 0, current_size |-> 0, new_episode |-> TRUE,
     buffer |-> EmptyDict, err |-> "none"]

\* Line 35: whether the new episode is appended (else it overwrites at idx).
HasRoom(self) == self.current_size < buffer_size

\* Lines 33-44: the writes of store_episode into self._buffer.
StoreWrites(self, r) ==
    LET d == self.buffer
    IN  IF self.new_episode
        THEN [k \in DOMAIN d \cup Keys |->
                IF k \in Keys
                THEN IF HasRoom(self)
                     THEN Append(Get(d, k), r[k])
                     ELSE [Get(d, k) EXCEPT ![self.idx + 1] = r[k]]
                ELSE d[k]]
        ELSE [k \in DOMAIN d \cup Keys |->
                IF k \in Keys
                THEN [Get(d, k) EXCEPT ![self.idx + 1] =
                        Append(@, IF k = "ob" THEN Tail(r[k]) ELSE r[k])]
                ELSE d[k]]

\* Lines 38, 42, 44 raise IndexError when the slot at idx is not there.
StoreWritesRaise(self) ==
    /\ ~(self.new_episode /\ HasRoom(self))
    /\ \E k \in Keys : self.idx >= Len(Get(self.buffer, k))

\* Lines 45-49: the slot the length check inspects.
CheckedSlot(self) == self.idx

\* Lines 45-49: the outcome of the length check on the dict d.
LengthCheck(self, d) ==
    LET j == CheckedSlot(self)
    IN  IF "ac" \notin DOMAIN d THEN "none"
        ELSE IF j >= Len(Get(d, "ob")) \/ j >= Len(d["ac"]) THEN "IndexError"
        ELSE IF Len(At(Get(d, "ob"), j)) = Len(At(d["ac"], j)) + 1 THEN "none"
        ELSE "AssertionError"

\* Lines 45-49 read self._buffer["ob"]: a defaultdict inserts the key.
AfterCheck(d) == IF "ac" \in DOMAIN d THEN Touch(d, "ob") ELSE d

\* Line 50: rollout["done"][-1].
DoneLast(r) == Last(r["done"]).val

\* Line 51 without its modulo.
NextIdxNoWrap(i) == i + 1

\* Line 51 without its increment.
NextIdxStay(i) == i

\* Line 51.
NextIdx(i) == (i + 1) % buffer_size

\* Line 52.
NextSize(n) == n + 1

\* Lines 32-53: the buffer after store_episode(r), or the exception raised.
StoreEpisode(self, r) ==
    IF StoreWritesRaise(self)
    THEN [self EXCEPT !.err = "IndexError"]
    ELSE LET d == StoreWrites(self, r)
             chk == LengthCheck(self, d)
             s1 == [self EXCEPT !.buffer = AfterCheck(d)]
         IN  IF chk # "none" THEN [s1 EXCEPT !.err = chk]
             ELSE IF Len(r["done"]) = 0 THEN [s1 EXCEPT !.err = "IndexError"]
             ELSE IF DoneLast(r)
             THEN [s1 EXCEPT !.idx = NextIdx(self.idx),
                             !.current_size = NextSize(self.current_size),
                             !.new_episode = TRUE]
             ELSE s1

\* Line 66: the logical size load_state_dict recomputes.
LoadedSize(d) == Len(Get(d, "ac"))

clear ==
    /\ err = "none"
    /\ idx' = Cleared.idx
    /\ current_size' = Cleared.current_size
    /\ new_episode' = Cleared.new_episode
    /\ \E r \in Refs :
          /\ r = (IF held = bufref THEN 3 - bufref ELSE bufref)
          /\ bufref' = r
          /\ heap' = [heap EXCEPT ![r] = Cleared.buffer]
    /\ op' = "clear"
    /\ rollout' = NoRollout
    /\ only_complete' = (only_complete /\ ncalls = 0)
    /\ UNCHANGED <<held, err, ncalls, samplerVars, drawVars,
                   cfgVars, demoVars>>

store_episode(r) ==
    /\ err = "none"
    /\ ncalls < MaxCalls
    /\ ncalls' = ncalls + 1
    /\ op' = "store_episode"
    /\ rollout' = r
    /\ LET s == StoreEpisode(Self, r)
       IN  /\ heap' = [heap EXCEPT ![bufref] = s.buffer]
           /\ idx' = s.idx
           /\ current_size' = s.current_size
           /\ new_episode' = s.new_episode
           /\ err' = s.err
           /\ only_complete' =
                 (only_complete /\ s.err = "none" /\ DoneLast(r))
    /\ UNCHANGED <<bufref, held, samplerVars, drawVars,
                   cfgVars, demoVars>>

state_dict ==
    /\ err = "none"
    /\ held' = bufref
    /\ heap' = [r \in Refs |-> IF r = bufref THEN heap[r] ELSE EmptyDict]
    /\ op' = "state_dict"
    /\ rollout' = NoRollout
    /\ UNCHANGED <<idx, current_size, new_episode, bufref, err, ncalls,
                   only_complete, samplerVars, drawVars,
                   cfgVars, demoVars>>

load_state_dict ==
    /\ err = "none"
    /\ held # 0
    /\ bufref' = held
    /\ heap' = [r \in Refs |->
                  IF r = held THEN Touch(heap[held], "ac") ELSE EmptyDict]
    /\ current_size' = LoadedSize(heap[held])
    /\ op' = "load_state_dict"
    /\ rollout' = NoRollout
    /\ UNCHANGED <<idx, new_episode, held, err, ncalls, only_complete,
                   samplerVars, drawVars,
                   cfgVars, demoVars>>

\* The rollouts the collaborator hands in as its s-th: any length, complete
\* or not, within the ingestion contract or with ob or rew off by one.
Rollouts(s) ==
    { Rollout(s, T, dev, dn, s % 2, s % 2) :
        T \in 1..MaxT, dev \in {"none", "ob_short", "rew_long"},
        dn \in BOOLEAN }

\* The rollouts within the ingestion contract.
ContractRollouts(s) ==
    { Rollout(s, T, "none", dn, s % 2, s % 2) : T \in 1..MaxT, dn \in BOOLEAN }

StoreAny == \E r \in Rollouts(ncalls + 1) : store_episode(r)

StoreContract == \E r \in ContractRollouts(ncalls + 1) : store_episode(r)

NoDraws ==
    /\ batch_size = 0
    /\ episode_idxs = <<>>
    /\ t_samples = <<>>
    /\ replace_goal = <<>>
    /\ future_ts = <<>>
    /\ result = EmptyDict

\* A ReplayBuffer built with the goal-conditioned keys.
PlainBuffer ==
    /\ keys = HerKeys
    /\ cls = "ReplayBuffer"
    /\ rew_fn = "none"

\* load_demonstrations was not called.
NoDemos ==
    /\ folder = <<>>
    /\ num_demos = 0

Init ==
    /\ PlainBuffer
    /\ idx = Cleared.idx
    /\ current_size = Cleared.current_size
    /\ new_episode = Cleared.new_episode
    /\ heap = [r \in Refs |-> Cleared.buffer]
    /\ bufref = 1
    /\ held = 0
    /\ err = "none"
    /\ op = "init"
    /\ rollout = NoRollout
    /\ ncalls = 0
    /\ only_complete = TRUE
    /\ replay_strategy = "future"
    /\ replace_future = 0
    /\ future_p = 0
    /\ NoDraws
    /\ NoDemos

\* store_episode and clear on one buffer.
Next ==
    \/ StoreAny
    \/ clear

Spec == Init /\ [][Next]_vars

\* The same with checkpointing: state_dict and load_state_dict.
NextDict ==
    \/ StoreContract
    \/ clear
    \/ state_dict
    \/ load_state_dict

SpecDict == Init /\ [][NextDict]_vars

\* ------------------------------------------------------------- samplers
\* np.random.randint(low, high): the integers it can return.
RandInt(low, high) == low..(high - 1)

\* np.random.uniform(), in percent: below 1.0, 0.0 included.
UniformDraws == {0, 25, 75, 99}

\* future_p taken from replace_future whatever the strategy.
HERInitAnyStrategy(strategy, replace) == replace

\* Lines 197-203: HERSampler.future_p (replace_future is in percent).
HERInit(strategy, replace) == IF strategy = "future" THEN replace ELSE 0

\* The injected reward_func(achieved_goal, goal, info): 0 when the goal is
\* met, the negative sentinel -1 when it is not.
reward_func(ag, g, info) == IF ag.val = g.val THEN 0 ELSE -1

\* Whether d[k][e][t] is there to be read.
InRange(d, k, e, t) == e < Len(Get(d, k)) /\ t < Len(At(d[k], e))

\* ob_next read at the sampled timestep itself.
ObNextIndexSame(t) == t

\* Lines 178-181 and 223-226: the timestep ob_next is read at.
ObNextIndex(t) == t + 1

\* Lines 171-181 and 216-226: per key of the store, the values at the drawn
\* (episode_idx, t) pairs, and ob_next.
Gather(d, es, ts) ==
    [k \in DOMAIN d \cup {"ob_next"} |->
        [i \in 1..Len(es) |->
            IF k = "ob_next"
            THEN At(At(d["ob"], es[i]), ObNextIndex(ts[i]))
            ELSE At(At(d[k], es[i]), ts[i])]]

\* Lines 171-181 and 216-226 raise IndexError on a read out of range.
GatherRaises(d, es, ts) ==
    \E i \in 1..Len(es) :
        \/ \E k \in DOMAIN d : ~InRange(d, k, es[i], ts[i])
        \/ ~InRange(d, "ob", es[i], ObNextIndex(ts[i]))

\* Lines 183-191 and 248-256: np.stack of the gathered values of one key,
\* component-wise when the first value is a mapping.
Stack(v) ==
    IF v[1].isdict
    THEN Dict([sub \in DOMAIN v[1].val |-> [i \in 1..Len(v) |-> v[i].val[sub]]])
    ELSE Scalar([i \in 1..Len(v) |-> v[i].val])

\* Lines 160-193: what sample_func returns on the store d for the draws
\* es (episode_idxs) and ts (t_samples), or the exception it raises.
SampleFunc(d, es, ts) ==
    IF GatherRaises(d, es, ts)
    THEN [err |-> "IndexError", result |-> EmptyDict]
    ELSE LET tr == Gather(d, es, ts)
         IN  [err |-> "none", result |-> [k \in DOMAIN tr |-> Stack(tr[k])]]

FutureDrawsBeyond(t, T) == RandInt(t + 1, T + 2)

\* Lines 233-235: the future_t values np.random.randint can return for a
\* sample at timestep t of an episode with T actions.
FutureDraws(t, T) == RandInt(t + 1, T + 1)

\* The relabel check reading the achieved goal one step later.
RelabelCheckIndexNext(t) == t + 1

\* Line 239: the timestep whose achieved goal the relabel check inspects.
RelabelCheckIndex(t) == t

\* The reward computed from the achieved goal at the sampled timestep.
RewardIndexSame(t) == t

\* Line 245: the timestep whose achieved goal the reward is computed from.
RewardIndex(t) == t + 1

\* Lines 230-243: the goal of sample i after the relabeling step.
Relabeled(d, e, t, rg, ft, g) ==
    IF rg
    THEN LET future_ag == At(At(d["ag"], e), ft)
         IN  IF reward_func(At(At(d["ag"], e), RelabelCheckIndex(t)),
                            future_ag, "None") < 0
             THEN future_ag
             ELSE g
    ELSE g

\* Lines 230-246 raise IndexError when ag is read out of range.
RelabelRaises(d, es, ts, rgs, fts) ==
    \E i \in 1..Len(es) :
        \/ rgs[i] /\ ~InRange(d, "ag", es[i], fts[i])
        \/ rgs[i] /\ ~InRange(d, "ag", es[i], RelabelCheckIndex(ts[i]))
        \/ ~InRange(d, "ag", es[i], RewardIndex(ts[i]))
        \/ "g" \notin DOMAIN d

\* Lines 205-258: what sample_her_transitions returns on the store d for
\* the draws es, ts, rgs (replace_goal per sample) and fts (future_t per
\* sample), or the exception it raises.
SampleHer(d, es, ts, rgs, fts) ==
    IF GatherRaises(d, es, ts) \/ RelabelRaises(d, es, ts, rgs, fts)
    THEN [err |-> "IndexError", result |-> EmptyDict]
    ELSE LET tr == Gather(d, es, ts)
             g == [i \in 1..Len(es) |->
                     Relabeled(d, es[i], ts[i], rgs[i], fts[i], tr["g"][i])]
             r == [i \in 1..Len(es) |->
                     Scalar(reward_func(At(At(d["ag"], es[i]), RewardIndex(ts[i])),
                                        g[i], "None"))]
             out == [k \in DOMAIN tr \cup {"r"} |->
                       IF k = "g" THEN g ELSE IF k = "r" THEN r ELSE tr[k]]
         IN  [err |-> "none", result |-> [k \in DOMAIN out |-> Stack(out[k])]]

StoreAfterRelabelAliased(d, es, ts, out) ==
    IF out.err # "none" THEN d
    ELSE [d EXCEPT !["g"] =
            [j \in 1..Len(d["g"]) |->
                [t \in 1..Len(d["g"][j]) |->
                    IF \E i \in 1..Len(es) : es[i] = j - 1 /\ ts[i] = t - 1
                    THEN Scalar(out.result["g"].val[
                             CHOOSE i \in 1..Len(es) : es[i] = j - 1 /\ ts[i] = t - 1])
                    ELSE d["g"][j][t]]]]

\* Lines 216-221 and 243: transitions["g"] is a list built by the call, so
\* the assignment transitions["g"][i] = future_ag leaves the store d as it is.
StoreAfterRelabel(d, es, ts, out) == d

\* Lines 162-169 and 206-214: the (episode_idxs, t_samples) np.random can
\* draw for a batch of b on the store d.
EpisodeDraws(d, b) == [1..b -> RandInt(0, Len(d["ac"]))]

TDraws(d, es) ==
    { ts \in [1..Len(es) -> RandInt(0, MaxT)] :
        \A i \in 1..Len(es) : ts[i] \in RandInt(0, Len(At(d["ac"], es[i]))) }

\* Lines 231-235: the relabel draws for the samples at (es, ts): whether
\* np.random.uniform() < future_p, and the future_t drawn when it is.
RelabelDraws(d, es, ts) ==
    { rf \in [1..Len(es) -> BOOLEAN \X RandInt(-1, MaxT + 1)] :
        \A i \in 1..Len(es) :
            /\ \E u \in UniformDraws : rf[i][1] = (u < future_p)
            /\ IF rf[i][1]
               THEN rf[i][2] \in FutureDraws(ts[i], Len(At(d["ac"], es[i])))
               ELSE rf[i][2] = -1 }

\* A sample call returns a function of the store and of its own draws alone,
\* so a behaviour takes one sample of the store it has built.
Sampled == op \in {"sample_func", "sample_her_transitions", "sample"}

\* ReplayBuffer.sample (lines 56-59) with RandomSampler.sample_func.
sample_func(b) ==
    /\ err = "none"
    /\ ~Sampled
    /\ cls = "ReplayBuffer"
    /\ op' = "sample_func"
    /\ batch_size' = b
    /\ LET d == Touch(buffer, "ac")
       IN  IF Len(d["ac"]) = 0
           THEN /\ err' = "ValueError"
                /\ heap' = [heap EXCEPT ![bufref] = d]
                /\ episode_idxs' = <<>>
                /\ t_samples' = <<>>
                /\ result' = EmptyDict
           ELSE \E es \in EpisodeDraws(d, b) : \E ts \in TDraws(d, es) :
                  LET out == SampleFunc(d, es, ts)
                  IN  /\ err' = out.err
                      /\ heap' = [heap EXCEPT ![bufref] = Touch(d, "ob")]
                      /\ episode_idxs' = es
                      /\ t_samples' = ts
                      /\ result' = out.result
    /\ replace_goal' = <<>>
    /\ future_ts' = <<>>
    /\ UNCHANGED <<idx, current_size, new_episode, bufref, held, rollout,
                   ncalls, only_complete, samplerVars,
                   cfgVars, demoVars>>

\* ReplayBuffer.sample (lines 56-59) with HERSampler.sample_her_transitions.
sample_her_transitions(b) ==
    /\ err = "none"
    /\ ~Sampled
    /\ cls = "ReplayBuffer"
    /\ op' = "sample_her_transitions"
    /\ batch_size' = b
    /\ LET d == Touch(buffer, "ac")
       IN  IF Len(d["ac"]) = 0
           THEN /\ err' = "ValueError"
                /\ heap' = [heap EXCEPT ![bufref] = d]
                /\ episode_idxs' = <<>>
                /\ t_samples' = <<>>
                /\ replace_goal' = <<>>
                /\ future_ts' = <<>>
                /\ result' = EmptyDict
           ELSE \E es \in EpisodeDraws(d, b) : \E ts \in TDraws(d, es) :
                \E rf \in RelabelDraws(d, es, ts) :
                  LET rgs == [i \in 1..b |-> rf[i][1]]
                      fts == [i \in 1..b |-> rf[i][2]]
                      out == SampleHer(d, es, ts, rgs, fts)
                  IN  /\ err' = out.err
                      /\ heap' = [heap EXCEPT ![bufref] =
                                    StoreAfterRelabel(Touch(Touch(d, "ob"), "ag"),
                                                      es, ts, out)]
                      /\ episode_idxs' = es
                      /\ t_samples' = ts
                      /\ replace_goal' = rgs
                      /\ future_ts' = fts
                      /\ result' = out.result
    /\ UNCHANGED <<idx, current_size, new_episode, bufref, held, rollout,
                   ncalls, only_complete, samplerVars,
                   cfgVars, demoVars>>

\* The buffer after n complete episodes were stored into an empty one: the
\* j-th has ((j - 1) % MaxT) + 1 actions and the goal (j % 2).
RECURSIVE Filled(_, _, _)
Filled(n, dev, change) ==
    IF n = 0 THEN Cleared
    ELSE StoreEpisode(Filled(n - 1, dev, change),
                      Rollout(n, ((n - 1) % MaxT) + 1, dev, TRUE, change, n % 2))

\* The reward the file of the s-th demonstration holds for its step t.
DemoRew(s, t) == 10 * s + t

\* Lines 85-90 and 150-155: the rollout built from the s-th demonstration,
\* which holds T actions; rewkey is "rew" (line 88) or "env_rew" (line 153).
DemoRollout(s, T, rewkey) ==
    [k \in {"ob", "ac", "done", rewkey} |->
        CASE k = "ob" -> [i \in 1..(T + 1) |-> Dict([object_ob |-> <<"ob", s, i - 1>>])]
          [] k = "ac" -> [i \in 1..T |-> Dict([default |-> <<"ac", s, i - 1>>])]
          [] k = "done" -> [i \in 1..T |-> Scalar(i = T)]
          [] OTHER -> [i \in 1..T |-> Scalar(DemoRew(s, i - 1))]]

\* Lines 147-156: the buffer after n demonstrations were stored into an
\* empty one: the j-th has ((j - 1) % MaxT) + 1 actions.
RECURSIVE FilledDemos(_, _)
FilledDemos(n, rewkey) ==
    IF n = 0 THEN Cleared
    ELSE StoreEpisode(FilledDemos(n - 1, rewkey),
                      DemoRollout(n, ((n - 1) % MaxT) + 1, rewkey))

\* The functions handed to LearnedRewardReplayBuffer as rew (line 97).
IntrinsicFns == {"zero", "index"}

\* self._rew applied to one transition (line 123).
Intrinsic(fn, ob, ob_next) ==
    IF fn = "zero" THEN 0
    ELSE 100 + ob.val.object_ob[3] + 2 * ob_next.val.object_ob[3]

IntrRewOnly(env, intr) == intr

\* Line 124: np.array(transitions["env_rew"]) + intr_rew, one component.
IntrRewAdded(env, intr) == env + intr

\* Lines 99-136: what LearnedRewardReplayBuffer.sample returns on the store d
\* for the draws es and ts, or the exception it raises.
LearnedSample(d, es, ts, fn) ==
    IF GatherRaises(d, es, ts)
    THEN [err |-> "IndexError", result |-> EmptyDict]
    ELSE IF "env_rew" \notin DOMAIN d
    THEN [err |-> "KeyError", result |-> EmptyDict]
    ELSE LET tr == Gather(d, es, ts)
             rew == [i \in 1..Len(es) |->
                        Scalar(IntrRewAdded(tr["env_rew"][i].val,
                                            Intrinsic(fn, tr["ob"][i], tr["ob_next"][i])))]
             all == [k \in DOMAIN tr \cup {"rew"} |->
                        IF k = "rew" THEN rew ELSE tr[k]]
         IN  [err |-> "none", result |-> [k \in DOMAIN all |-> Stack(all[k])]]

\* LearnedRewardReplayBuffer.sample (lines 99-136).
sample(b) ==
    /\ err = "none"
    /\ ~Sampled
    /\ cls = "LearnedRewardReplayBuffer"
    /\ op' = "sample"
    /\ batch_size' = b
    /\ LET d == Touch(buffer, "ac")
       IN  IF Len(d["ac"]) = 0
           THEN /\ err' = "ValueError"
                /\ heap' = [heap EXCEPT ![bufref] = d]
                /\ episode_idxs' = <<>>
                /\ t_samples' = <<>>
                /\ result' = EmptyDict
           ELSE \E es \in EpisodeDraws(d, b) : \E ts \in TDraws(d, es) :
                  LET out == LearnedSample(d, es, ts, rew_fn)
                  IN  /\ err' = out.err
                      /\ heap' = [heap EXCEPT ![bufref] = Touch(d, "ob")]
                      /\ episode_idxs' = es
                      /\ t_samples' = ts
                      /\ result' = out.result
    /\ replace_goal' = <<>>
    /\ future_ts' = <<>>
    /\ UNCHANGED <<idx, current_size, new_episode, bufref, held, rollout,
                   ncalls, only_complete, samplerVars,
                   cfgVars, demoVars>>

\* The state in which the buffer is s after n calls of store_episode.
Holds(s, n) ==
    /\ idx = s.idx
    /\ current_size = s.current_size
    /\ new_episode = s.new_episode
    /\ heap = [r \in Refs |-> IF r = 1 THEN s.buffer ELSE EmptyDict]
    /\ bufref = 1
    /\ held = 0
    /\ err = "none"
    /\ op = "init"
    /\ rollout = NoRollout
    /\ ncalls = n
    /\ only_complete = TRUE
    /\ NoDraws

\* A goal-conditioned buffer holding up to buffer_size complete episodes, and
\* a sampler.
InitPlainSample ==
    /\ PlainBuffer
    /\ \E n \in 0..buffer_size, dev \in {"none", "ag_short"}, change \in 0..(MaxT + 1) :
           Holds(Filled(n, dev, change), n)
    /\ replay_strategy \in {"future", "final"}
    /\ replace_future \in {0, 50, 100}
    /\ future_p = HERInit(replay_strategy, replace_future)
    /\ NoDemos

\* A LearnedRewardReplayBuffer holding up to buffer_size demonstrations.
InitLearnedSample ==
    /\ keys = LearnedKeys
    /\ cls = "LearnedRewardReplayBuffer"
    /\ rew_fn \in IntrinsicFns
    /\ \E n \in 0..buffer_size : Holds(FilledDemos(n, "env_rew"), n)
    /\ replay_strategy = "future"
    /\ replace_future = 0
    /\ future_p = 0
    /\ NoDemos

InitSample == InitPlainSample \/ InitLearnedSample

NextSample ==
    \/ \E b \in 1..MaxBatch : sample_func(b)
    \/ \E b \in 1..MaxBatch : sample_her_transitions(b)
    \/ \E b \in 1..MaxBatch : sample(b)

SpecSample == InitSample /\ [][NextSample]_vars

\* ------------------------------------------------------ load_demonstrations
\* An entry of demo_folder: 0 is a directory or a file of another name, T > 0
\* a file ending in "pkl" whose demonstration holds T actions (line 75).
IsPkl(entry) == entry > 0

\* The folders, as the entries os.scandir yields in its order.
Folders == UNION {[1..n -> 0..MaxT] : n \in 0..MaxFiles}

ScanStopsEarly(i, nd) == i >= nd

\* Line 78: the scan stops once i > num_demos.
ScanStops(i, nd) == i > nd

\* Lines 72-79: the demonstrations collected from the entries f[k..] after
\* demos were collected (i = Len(demos)).
RECURSIVE Scan(_, _, _, _)
Scan(f, k, demos, nd) ==
    IF k > Len(f) THEN demos
    ELSE LET ds == IF IsPkl(f[k]) THEN Append(demos, f[k]) ELSE demos
         IN  IF ScanStops(Len(ds), nd) THEN ds ELSE Scan(f, k + 1, ds, nd)

\* Lines 82-91: store_episode on the rollout of every collected
\* demonstration from the k-th on, up to the first that raises.
RECURSIVE StoreDemos(_, _, _, _)
StoreDemos(self, demos, k, rewkey) ==
    IF k > Len(demos) \/ self.err # "none" THEN self
    ELSE StoreDemos(StoreEpisode(self, DemoRollout(k, demos[k], rewkey)),
                    demos, k + 1, rewkey)

\* ReplayBuffer.load_demonstrations (lines 68-91), on a buffer just built.
load_demonstrations(nd) ==
    /\ err = "none"
    /\ op = "init"
    /\ cls = "ReplayBuffer"
    /\ op' = "load_demonstrations"
    /\ num_demos' = nd
    /\ LET demos == Scan(folder, 1, <<>>, nd)
           s == StoreDemos(Self, demos, 1, "rew")
       IN  /\ heap' = [heap EXCEPT ![bufref] = s.buffer]
           /\ idx' = s.idx
           /\ current_size' = s.current_size
           /\ new_episode' = s.new_episode
           /\ err' = s.err
           /\ ncalls' = Len(demos)
           /\ only_complete' = (s.err = "none")
           /\ rollout' = IF Len(demos) = 0 THEN NoRollout
                         ELSE DemoRollout(Len(demos), Last(demos), "rew")
    /\ UNCHANGED <<bufref, held, folder, samplerVars, drawVars, cfgVars>>

\* A ReplayBuffer just built over the keys of a demonstration, and a folder.
InitDemo ==
    /\ keys = DemoKeys
    /\ cls = "ReplayBuffer"
    /\ rew_fn = "none"
    /\ Holds(Cleared, 0)
    /\ replay_strategy = "future"
    /\ replace_future = 0
    /\ future_p = 0
    /\ folder \in Folders
    /\ num_demos = 0

NextDemo == \E nd \in 0..MaxDemos : load_demonstrations(nd)

SpecDemo == InitDemo /\ [][NextDemo]_vars

\* ------------------------------------------------------------- claims
\* The number of episode slots self._buffer holds for key k.
NumSlots(k) == Len(Get(buffer, k))

\* The serial number of the rollout a stored slot came from.
SerialOf(slot) == slot[1].val.default[2]

\* The last store_episode call returned normally.
Stored == op = "store_episode" /\ err = "none"

\* C1: in every state reached by store_episode calls from an empty buffer,
\* current_size is at most the configured capacity buffer_size.
C1_SizeWithinCapacity == current_size <= buffer_size

\* C2: after any sequence of store_episode calls, whatever their done flags,
\* every tracked key holds at most buffer_size episode slots.
C2_SlotsWithinCapacity == \A k \in Keys : NumSlots(k) <= buffer_size

\* C3: a store_episode call whose done[-1] is false leaves the store marked
\* mid-episode (new_episode False), and the call that follows it appends to
\* the slot at the cursor instead of taking another slot, so the episode
\* occupies one slot.
C3_EpisodeInOneSlot ==
    [][ (Stored /\ ~DoneLast(rollout))
          => /\ ~new_episode
             /\ (op' = "store_episode" /\ err' = "none")
                  => \A k \in Keys : NumSlots(k)' = NumSlots(k) ]_vars

\* Every store_episode call so far carried one complete episode and was
\* accepted, and the buffer was not cleared since.
OnlyCompleteEpisodes == err = "none" /\ only_complete

\* The serial numbers of the episodes held under key "ac".
HeldSerials == { SerialOf(buffer["ac"][j]) : j \in 1..NumSlots("ac") }

\* C4: when every store_episode call carries one complete episode, the store
\* holds exactly the most recent buffer_size episodes (all of them while
\* fewer were stored), each slot holding one episode under all its keys, and
\* once buffer_size episodes are held the slot at the cursor idx, the one the
\* next episode overwrites, holds the earliest-stored episode still held.
C4_OldestOverwrittenFirst ==
    (OnlyCompleteEpisodes /\ ncalls > 0) =>
        LET n == ncalls
            kept == IF n < buffer_size THEN n ELSE buffer_size
        IN  /\ \A k \in Keys : NumSlots(k) = kept
            /\ HeldSerials = (n - kept + 1)..n
            /\ \A j \in 1..kept :
                   /\ buffer["ob"][j][1].val.object_ob[2] = SerialOf(buffer["ac"][j])
                   /\ buffer["rew"][j][1].val[2] = SerialOf(buffer["ac"][j])
            /\ Stored =>
                   \A k \in Keys : At(buffer[k], (n - 1) % buffer_size) = rollout[k]
            /\ idx = n % buffer_size
            /\ n >= buffer_size =>
                   SerialOf(At(buffer["ac"], idx)) = n - buffer_size + 1

\* C4 witness: a third complete episode has overwritten the oldest slot of
\* a full buffer.
C4_Witness ==
    /\ OnlyCompleteEpisodes
    /\ Stored
    /\ ncalls > buffer_size

\* C5: after every store_episode call that returns without error, every
\* episode slot satisfies len(ob) == len(ac) + 1.
C5_EverySlotChecked ==
    Stored =>
        \A j \in 1..NumSlots("ac") :
            /\ j <= NumSlots("ob")
            /\ Len(buffer["ob"][j]) = Len(buffer["ac"][j]) + 1

\* C10: load_state_dict(state_dict()) leaves the per-key episode contents as
\* they were and recomputes the current_size the buffer had before it; stated
\* here for the buffers every store_episode call of which carried one
\* complete episode.
C10_RoundTripKeepsSize ==
    [][ (op = "state_dict" /\ OnlyCompleteEpisodes /\ op' = "load_state_dict")
          => /\ \A k \in Keys : Get(buffer, k)' = Get(buffer, k)
             /\ current_size' = current_size ]_vars

\* ------------------------------------------------------------- claims, samplers
\* Sample i of the returned mapping under key k, with np.stack undone.
Entry(res, k, i) ==
    IF res[k].isdict
    THEN Dict([sub \in DOMAIN res[k].val |-> res[k].val[sub][i]])
    ELSE Scalar(res[k].val[i])

\* Every array of the returned mapping under key k has b entries.
HasEntries(res, k, b) ==
    IF res[k].isdict
    THEN \A sub \in DOMAIN res[k].val : Len(res[k].val[sub]) = b
    ELSE Len(res[k].val) = b

\* The stored value of key k at the (episode, timestep) drawn for sample i.
StoredAt(k, i) == At(At(buffer[k], episode_idxs[i]), t_samples[i])

\* The stored achieved goal of sample i's episode at timestep t.
AgOf(i, t) == At(At(buffer["ag"], episode_idxs[i]), t)

\* The number of actions of sample i's episode.
LenOf(i) == Len(At(buffer["ac"], episode_idxs[i]))

SampledUniform == op = "sample_func" /\ err = "none"

SampledHer == op = "sample_her_transitions" /\ err = "none"

\* C6: on a non-empty store whose episodes satisfy len(ob) == len(ac) + 1,
\* sample_func returns, and what it returns has batch_size entries per key,
\* entry i being the stored value of every key at one (e_i, t_i) with
\* 0 <= e_i < number of episodes and 0 <= t_i < len(ac[e_i]), and its ob_next
\* being ob[e_i][t_i + 1] of the same episode.
C6_UniformBatch ==
    /\ (op = "sample_func" /\ NumSlots("ac") > 0) => err = "none"
    /\ SampledUniform =>
        /\ batch_size >= 1
        /\ DOMAIN result = DOMAIN buffer \cup {"ob_next"}
        /\ \A k \in DOMAIN result : HasEntries(result, k, batch_size)
        /\ \A i \in 1..batch_size :
              /\ episode_idxs[i] \in 0..(NumSlots("ac") - 1)
              /\ t_samples[i] \in 0..(LenOf(i) - 1)
              /\ \A k \in DOMAIN buffer : Entry(result, k, i) = StoredAt(k, i)
              /\ Entry(result, "ob_next", i) =
                     At(At(buffer["ob"], episode_idxs[i]), t_samples[i] + 1)

\* C6 witness: a batch of two drawn from two episodes of different length,
\* one sample at the last timestep of the longer one.
C6_Witness ==
    /\ SampledUniform
    /\ batch_size = 2
    /\ episode_idxs[1] # episode_idxs[2]
    /\ \E i \in 1..2 : t_samples[i] = LenOf(i) - 1 /\ t_samples[i] > 0

\* C7: the reward r of every sample of a batch sample_her_transitions
\* returns is reward_func(ag[e][t + 1], g, None) for the goal g returned
\* for that sample, relabeled or not; the stored rew is returned as it is
\* under its own key.
C7_RewardRecomputed ==
    SampledHer =>
        \A i \in 1..batch_size :
            /\ InRange(buffer, "ag", episode_idxs[i], t_samples[i] + 1)
            /\ Entry(result, "r", i) =
                   Scalar(reward_func(AgOf(i, t_samples[i] + 1),
                                      Entry(result, "g", i), "None"))
            /\ Entry(result, "rew", i) = StoredAt("rew", i)

\* C7 witness: a sample whose goal was relabeled and whose recomputed reward
\* is 0, and one whose reward is -1.
C7_Witness ==
    /\ SampledHer
    /\ \E i \in 1..batch_size :
          /\ Entry(result, "g", i) # StoredAt("g", i)
          /\ Entry(result, "r", i).val = 0
    /\ \E i \in 1..batch_size : Entry(result, "r", i).val = -1

\* C8: the goal returned for a sample at (e, t) is the stored g[e][t] or
\* ag[e][future_t] with t < future_t <= len(ac[e]); it is the latter exactly
\* when the relabel draw fired and reward_func(ag[e][t], ag[e][future_t],
\* None) < 0, the check reading the achieved goal at t.
C8_RelabelPolicy ==
    SampledHer =>
        \A i \in 1..batch_size :
            LET t == t_samples[i]
                ft == future_ts[i]
                g == Entry(result, "g", i)
            IN  /\ replace_goal[i] => (t < ft /\ ft <= LenOf(i))
                /\ IF replace_goal[i] /\ reward_func(AgOf(i, t), AgOf(i, ft), "None") < 0
                   THEN g = AgOf(i, ft)
                   ELSE g = StoredAt("g", i)

\* C8 witness: one sample relabeled with the achieved goal at the terminal
\* index, and one whose relabel draw fired but whose goal was kept.
C8_Witness ==
    /\ SampledHer
    /\ \E i \in 1..batch_size :
          /\ replace_goal[i]
          /\ future_ts[i] = LenOf(i)
          /\ Entry(result, "g", i) # StoredAt("g", i)
    /\ \E i \in 1..batch_size :
          /\ replace_goal[i]
          /\ reward_func(AgOf(i, t_samples[i]), AgOf(i, future_ts[i]), "None") = 0
          /\ Entry(result, "g", i) # AgOf(i, future_ts[i])

\* C9: a HERSampler built with a replay_strategy other than "future", or with
\* "future" and replace_future = 0, never relabels: every returned goal is
\* the stored g[e][t] of its sample.
C9_NoRelabelWithoutFuture ==
    (SampledHer /\ (replay_strategy # "future" \/ replace_future = 0)) =>
        \A i \in 1..batch_size :
            /\ ~replace_goal[i]
            /\ Entry(result, "g", i) = StoredAt("g", i)

\* C9 witness: a batch from a sampler built with another strategy and a
\* non-zero replace_future, a sample of which has a later achieved goal
\* that differs from the one at its timestep.
C9_Witness ==
    /\ SampledHer
    /\ replay_strategy # "future"
    /\ replace_future > 0
    /\ \E i \in 1..batch_size :
          /\ InRange(buffer, "ag", episode_idxs[i], LenOf(i))
          /\ AgOf(i, t_samples[i]) # AgOf(i, LenOf(i))

\* ------------------------------------------------------ claims, second part
\* C11: a sample call of any of the three samplers (sample_func,
\* sample_her_transitions with its relabeling, LearnedRewardReplayBuffer.sample)
\* leaves the stored episodes of every key, idx, current_size and
\* new_episode as they were.
C11_SamplingNeverMutates ==
    [][ Sampled' =>
          /\ \A k \in HerKeys \cup LearnedKeys : Get(buffer, k)' = Get(buffer, k)
          /\ idx' = idx
          /\ current_size' = current_size
          /\ new_episode' = new_episode ]_vars

\* C11 witness: a batch of sample_her_transitions from a full store, one
\* goal of which was relabeled while the stored g of that sample is still
\* the goal its episode was stored with.
C11_Witness ==
    /\ SampledHer
    /\ current_size = buffer_size
    /\ \E i \in 1..batch_size :
          /\ replace_goal[i]
          /\ Entry(result, "g", i) # StoredAt("g", i)
          /\ StoredAt("g", i) = Scalar((episode_idxs[i] + 1) % 2)

\* The number of entries of the folder that are files ending in "pkl".
NumPkl == Cardinality({k \in 1..Len(folder) : IsPkl(folder[k])})

\* The smaller of two numbers.
Min(a, b) == IF a < b THEN a ELSE b

\* C12: load_demonstrations(folder, num_demos) with num_demos >= 0 on a
\* folder with n files ending in "pkl" returns normally after storing
\* min(n, num_demos + 1) demonstrations, each as one closed episode in a slot
\* of its own: current_size is that number, idx is that number modulo
\* buffer_size, every key holds min(that number, buffer_size) slots and the
\* last closed flag of every slot is set; with n = 0 the buffer stays empty.
C12_DemosLoaded ==
    op = "load_demonstrations" =>
        LET m == Min(NumPkl, num_demos + 1)
        IN  /\ err = "none"
            /\ ncalls = m
            /\ current_size = m
            /\ idx = m % buffer_size
            /\ new_episode
            /\ \A k \in Keys : NumSlots(k) = Min(m, buffer_size)
            /\ \A j \in 1..NumSlots("done") : Last(buffer["done"][j]).val
            /\ \A j \in 1..NumSlots("ac") :
                  \E k \in 1..Len(folder) : Len(buffer["ac"][j]) = folder[k]
            /\ NumPkl = 0 => buffer = EmptyDict

\* C12 witness: a folder of three files ending in "pkl" loaded with
\* num_demos = 1, which stores two of them.
C12_Witness ==
    /\ op = "load_demonstrations"
    /\ NumPkl = 3
    /\ num_demos = 1
    /\ current_size = 2

SampledLearned == op = "sample" /\ err = "none"

\* C13: on a non-empty store of demonstrations LearnedRewardReplayBuffer.sample
\* returns, and for every sample at (e, t) the returned rew is the stored
\* env_rew[e][t] plus the intrinsic reward of (ob[e][t], ob[e][t + 1]), the
\* returned env_rew is the stored env_rew[e][t], and with an intrinsic
\* reward of zero the returned rew is the stored environment reward.
C13_RewardAugmented ==
    /\ (op = "sample" /\ NumSlots("ac") > 0) => err = "none"
    /\ SampledLearned =>
        \A i \in 1..batch_size :
            LET env == StoredAt("env_rew", i)
                ob_next == At(At(buffer["ob"], episode_idxs[i]), t_samples[i] + 1)
            IN  /\ Entry(result, "rew", i) =
                       Scalar(env.val + Intrinsic(rew_fn, StoredAt("ob", i), ob_next))
                /\ Entry(result, "env_rew", i) = env
                /\ Entry(result, "ob_next", i) = ob_next
                /\ rew_fn = "zero" => Entry(result, "rew", i) = env

\* C13 witness: a batch of two from two demonstrations under an intrinsic
\* reward that is not zero, the returned rew of both above the stored
\* environment reward.
C13_Witness ==
    /\ SampledLearned
    /\ rew_fn = "index"
    /\ batch_size = 2
    /\ episode_idxs[1] # episode_idxs[2]
    /\ \A i \in 1..2 : Entry(result, "rew", i).val > StoredAt("env_rew", i).val

\* C14: a sample call on a buffer that holds no episode returns without an
\* error, and what it returns holds no transition.
C14_EmptySampleReturns ==
    (Sampled /\ NumSlots("ac") = 0) => (err = "none" /\ result = EmptyDict)

\* C15: after every store_episode call that returns without an error, every
\* stored episode has as many rew entries and as many done entries as it
\* has actions.
C15_RewDoneLengths ==
    Stored =>
        \A j \in 1..NumSlots("ac") :
            /\ Len(buffer["rew"][j]) = Len(buffer["ac"][j])
            /\ Len(buffer["done"][j]) = Len(buffer["ac"][j])

\* C16: a store_episode call that returns with done[-1] true sets idx to
\* (idx + 1) mod buffer_size and adds one to current_size; a call with
\* done[-1] false, or one that raises, leaves both as they were; and
\* 0 <= idx < buffer_size in every reachable state.
C16_CursorOnDone ==
    /\ [](idx \in 0..(buffer_size - 1))
    /\ [][ ncalls' = ncalls + 1 =>
             IF err' = "none" /\ DoneLast(rollout')
             THEN /\ idx' = (idx + 1) % buffer_size
                  /\ current_size' = current_size + 1
             ELSE /\ idx' = idx
                  /\ current_size' = current_size ]_vars

\* C16 witness: the cursor wrapped to 0 after buffer_size closed episodes,
\* and a call with done[-1] false then left it there.
C16_Witness ==
    /\ Stored
    /\ ~DoneLast(rollout)
    /\ ncalls = buffer_size + 1
    /\ current_size = buffer_size
    /\ idx = 0

\* Every slot of the store holds an episode that was closed.
AllSlotsClosed ==
    \A j \in 1..NumSlots("done") : Last(buffer["done"][j]).val

\* C17: in every state reached through clear, store_episode and
\* load_state_dict in which the store holds fewer than buffer_size
\* episodes, all of them closed, idx equals current_size and equals the
\* number of slots held.
C17_CursorIsSize ==
    (err = "none" /\ AllSlotsClosed /\ NumSlots("ac") < buffer_size) =>
        /\ idx = current_size
        /\ current_size = NumSlots("ac")

\* The stored ag of every episode has n entries more than its ac.
AgLonger(n) ==
    /\ NumSlots("ag") = NumSlots("ac")
    /\ \A j \in 1..NumSlots("ac") : Len(buffer["ag"][j]) = Len(buffer["ac"][j]) + n

\* Every ag index the last sample_her_transitions call read is an index of
\* the stored sequence, and the call returned.
AgReadsInBounds ==
    /\ \A i \in 1..batch_size :
          /\ InRange(buffer, "ag", episode_idxs[i], t_samples[i] + 1)
          /\ replace_goal[i] => InRange(buffer, "ag", episode_idxs[i], future_ts[i])
    /\ err = "none"

\* C18 as stated: on a non-empty store whose episodes have as many ag
\* entries as actions, every ag index sample_her_transitions reads is
\* within bounds.
C18_AgOfActionLength ==
    (op = "sample_her_transitions" /\ NumSlots("ac") > 0 /\ AgLonger(0))
        => AgReadsInBounds

\* C18, amended: on a non-empty store whose episodes have one ag entry more
\* than actions (len(ag) == len(ob) == len(ac) + 1), every ag index
\* sample_her_transitions reads, ag[e][t + 1] and ag[e][future_t] with
\* 0 <= t < len(ac[e]) and t < future_t <= len(ac[e]), is within bounds.
C18_AgOfObservationLength ==
    (op = "sample_her_transitions" /\ NumSlots("ac") > 0 /\ AgLonger(1))
        => AgReadsInBounds

\* C18 witness: a sample at the last timestep of the longest episode whose
\* relabel draw fired with future_t at the terminal index.
C18_Witness ==
    /\ SampledHer
    /\ AgLonger(1)
    /\ \E i \in 1..batch_size :
          /\ LenOf(i) = MaxT
          /\ t_samples[i] = LenOf(i) - 1
          /\ replace_goal[i]
          /\ future_ts[i] = LenOf(i)

\* C19: the mapping obtained from state_dict(), and the mapping handed to
\* load_state_dict, keep their contents through every later store_episode
\* call on the buffer.
C19_SnapshotKept ==
    [][ (held # 0 /\ ncalls' = ncalls + 1) => heap'[held] = heap[held] ]_vars

====
